---------------------------- MODULE Spec2Model ----------------------------
(***************************************************************************)
(* A model of the cocoon-rearing recommender backend: the ML price         *)
(* service, the weather service, the rule engine and the recommendation    *)
(* routes built on them.                                                   *)
(*                                                                         *)
(* Units.  Temperatures, humidity and rainfall are integers in tenths      *)
(* (24.0 is 240), prices are whole rupees (450.0 is 450), confidence       *)
(* scores are hundredths (0.85 is 85).  A date is the number of days since *)
(* 2025-01-01 (the ordinal a Python date carries); its year, month and day *)
(* are computed from it by YMD.  An ISO date string "YYYY-MM-DD" is the     *)
(* tuple of its three fields.  A value that may be None is a set: {} for     *)
(* None, {v} for v.  A call that may raise returns Ok(v) or Raise(e).       *)
(***************************************************************************)
EXTENDS Integers, Sequences, FiniteSets, TLC

VARIABLES
    phase,            \* "startup" until lifespan has run load_model, then "serving"
    ml,               \* the global MLService instance
    today,            \* the server's current local date
    clock,            \* the time datetime.utcnow() reads
    provider,         \* the hourly payload the weather provider serves
    recommendations,  \* the recommendations collection, in insertion order
    forecasts,        \* a forecast list assembled for generate_10day_predictions
    call,             \* the latest request: its inputs, what it did and its response
    users,            \* the users collection, in insertion order
    requests,         \* the register or profile requests: where each stands
    farmers           \* the farmers collection, in insertion order

vars == <<phase, ml, today, clock, provider, recommendations, forecasts, call,
          users, requests, farmers>>

None == {}
Some(v) == {v}
The(o) == CHOOSE v \in o : TRUE

Ok(v) == [ok |-> TRUE, val |-> v]
Raise(e) == [ok |-> FALSE, exc |-> e]

\* ------------------------------------------------------------------ bounds

\* Most hourly samples in a provider payload.
MaxSamples == 2

\* Most requests that reach generate_recommendation (and so most records).
MaxRecs == 1

\* Longest forecast list handed to generate_10day_predictions on its own.
MaxDays == 11

\* Longest span, in days, between the two dates handed to validate_rearing_period.
MaxOffset == 32

\* Most recommendations stored before a history is read.
MaxHistory == 3

\* Most register requests in flight or answered.
MaxRegistrations == 3

\* ------------------------------------------------------------------ dates

IsLeap(y) == (y % 4 = 0 /\ y % 100 # 0) \/ y % 400 = 0

DaysInYear(y) == IF IsLeap(y) THEN 366 ELSE 365

DaysInMonth(y, m) ==
    IF m = 2 THEN (IF IsLeap(y) THEN 29 ELSE 28)
    ELSE IF m \in {4, 6, 9, 11} THEN 30 ELSE 31

RECURSIVE SplitYear(_, _)
SplitYear(y, n) ==
    IF n >= DaysInYear(y) THEN SplitYear(y + 1, n - DaysInYear(y))
    ELSE [year |-> y, rest |-> n]

RECURSIVE SplitMonth(_, _, _)
SplitMonth(y, m, n) ==
    IF n >= DaysInMonth(y, m) THEN SplitMonth(y, m + 1, n - DaysInMonth(y, m))
    ELSE [month |-> m, day |-> n + 1]

\* date.year, date.month, date.day of the date with ordinal d.
YMD(d) ==
    LET yr == SplitYear(2025, d)
        md == SplitMonth(yr.year, 1, yr.rest)
    IN  [year |-> yr.year, month |-> md.month, day |-> md.day]

RECURSIVE DaysBeforeYear(_)
DaysBeforeYear(y) ==
    IF y <= 2025 THEN 0 ELSE DaysBeforeYear(y - 1) + DaysInYear(y - 1)

RECURSIVE DaysBeforeMonth(_, _)
DaysBeforeMonth(y, m) ==
    IF m <= 1 THEN 0 ELSE DaysBeforeMonth(y, m - 1) + DaysInMonth(y, m - 1)

\* date(y, m, d)
MkDate(y, m, d) == DaysBeforeYear(y) + DaysBeforeMonth(y, m) + (d - 1)

\* date.isoformat(): "YYYY-MM-DD", kept as its three fields.
isoformat(d) == LET f == YMD(d) IN <<f.year, f.month, f.day>>

\* datetime.strptime(s, "%Y-%m-%d").date(): ValueError unless the fields name a day.
strptime(s) ==
    IF /\ Len(s) = 3
       /\ s[1] >= 2025
       /\ s[2] \in 1..12
       /\ s[3] >= 1
       /\ s[3] <= DaysInMonth(s[1], s[2])
    THEN Ok(MkDate(s[1], s[2], s[3]))
    ELSE Raise("ValueError")

\* An end date that counts the start day as the first day of the duration.
InclusiveEndDate(start_date, duration_days) == start_date + duration_days - 1

\* date + timedelta(days=n)
calculate_end_date(start_date, duration_days) == start_date + duration_days

\* datetime.combine(d, datetime.min.time())
date_to_datetime(d) == [date |-> d, time |-> 0]

\* datetime.date() of a stored datetime (the isinstance(dt, datetime) branch).
datetime_to_date(dt) == dt.date

\* ------------------------------------------------------------ rule engine

OPTIMAL_TEMP_MIN == 20
OPTIMAL_TEMP_MAX == 28
MIN_REARING_DURATION == 25
MAX_REARING_DURATION == 30
OPTIMAL_REARING_DURATION == 28

\* The constraint with the bounds themselves outside the optimal range.
StrictTemperatureConstraints(start_date, temperature) ==
    IF temperature <= OPTIMAL_TEMP_MIN * 10 THEN start_date + 3
    ELSE IF temperature >= OPTIMAL_TEMP_MAX * 10 THEN start_date + 2
    ELSE start_date

apply_temperature_constraints(start_date, temperature) ==
    IF temperature < OPTIMAL_TEMP_MIN * 10 THEN start_date + 3
    ELSE IF temperature > OPTIMAL_TEMP_MAX * 10 THEN start_date + 2
    ELSE start_date

\* A duration rule that shortens a hot rearing to below the minimum.
ShortWhenHot(temperature) ==
    IF temperature < OPTIMAL_TEMP_MIN * 10 THEN MAX_REARING_DURATION
    ELSE IF temperature > OPTIMAL_TEMP_MAX * 10 THEN MIN_REARING_DURATION - 1
    ELSE OPTIMAL_REARING_DURATION

\* The rearing duration for a temperature.
get_optimal_rearing_duration(temperature) ==
    IF temperature < OPTIMAL_TEMP_MIN * 10 THEN MAX_REARING_DURATION
    ELSE IF temperature > OPTIMAL_TEMP_MAX * 10 THEN MIN_REARING_DURATION
    ELSE OPTIMAL_REARING_DURATION

\* A validation with both limits excluded.
ValidateStrictly(start_date, end_date) ==
    LET duration == end_date - start_date IN
    MIN_REARING_DURATION < duration /\ duration < MAX_REARING_DURATION

\* validate_rearing_period; (end_date - start_date).days is the difference of the
\* ordinals.
validate_rearing_period(start_date, end_date) ==
    LET duration == end_date - start_date IN
    MIN_REARING_DURATION <= duration /\ duration <= MAX_REARING_DURATION

\* A rule-engine season function whose post-monsoon bucket opens in September.
RuleSeasonFromSeptember(check_date) ==
    LET month == YMD(check_date).month IN
    IF month \in {12, 1, 2} THEN "Winter"
    ELSE IF month \in {3, 4, 5} THEN "Summer"
    ELSE IF month \in {6, 7, 8} THEN "Monsoon"
    ELSE "Post-Monsoon"

\* The rule engine's season of a date.
get_season_from_date(check_date) ==
    LET month == YMD(check_date).month IN
    IF month \in {12, 1, 2} THEN "Winter"
    ELSE IF month \in {3, 4, 5} THEN "Summer"
    ELSE IF month \in {6, 7, 8, 9} THEN "Monsoon"
    ELSE "Post-Monsoon"

\* A test that counts the months after the monsoon as unfavorable too.
FavorableOutsideRains(check_date) ==
    get_season_from_date(check_date) \notin {"Monsoon", "Post-Monsoon"}

is_favorable_season(check_date) == get_season_from_date(check_date) # "Monsoon"

\* ------------------------------------------------------------- ML service

\* The order the model was trained with.
FEATURE_COLUMNS ==
    <<"city", "month", "season", "avg_temp", "max_temp", "avg_humidity", "rainfall">>

\* A season table whose monsoon ends with August.
SeasonEndingInAugust(month) ==
    IF month \in {12, 1, 2} THEN "Winter"
    ELSE IF month \in {3, 4, 5} THEN "Summer"
    ELSE IF month \in {6, 7, 8} THEN "Monsoon"
    ELSE "PostMonsoon"

get_season(month) ==
    IF month \in {12, 1, 2} THEN "Winter"
    ELSE IF month \in {3, 4, 5} THEN "Summer"
    ELSE IF month \in {6, 7, 8, 9} THEN "Monsoon"
    ELSE "PostMonsoon"

\* The pickled artifacts a deployment may hold.  A label encoder is the sorted
\* tuple of its classes_; a booster is named by the function it computes.
CityEncoder == <<"Bengaluru", "Ramanagar", "Siddlaghatta">>
SeasonEncoder == <<"Monsoon", "PostMonsoon", "Summer", "Winter">>
Boosters == {"thermal", "broken"}

\* LabelEncoder.transform of one label: its index in classes_ (from 0), or
\* ValueError("y contains previously unseen labels").
transform(encoder, label) ==
    IF \E i \in 1..Len(encoder) : encoder[i] = label
    THEN Ok((CHOOSE i \in 1..Len(encoder) : encoder[i] = label) - 1)
    ELSE Raise("unseen_labels")

\* input_df[FEATURE_COLUMNS]: the row's values in the trained column order.
Column(row, name) == row[CHOOSE i \in 1..Len(FEATURE_COLUMNS) : FEATURE_COLUMNS[i] = name]

\* model.get_booster().predict(dmatrix)[0] for each artifact: a price, or an
\* exception of the inference call.
BoosterPredict(booster, row) ==
    CASE booster = "thermal" ->
            Ok(300 + (Column(row, "avg_temp") \div 2)
                   + 10 * Column(row, "city") + Column(row, "month")
                   + 5 * Column(row, "season"))
      [] OTHER -> Raise("XGBoostError")

\* MLService.__init__
MLServiceInit ==
    [model |-> None, le_city |-> None, le_season |-> None, model_loaded |-> FALSE]

\* What the model directory holds: for each file "missing", "corrupt" (joblib.load
\* raises) or "ok", and the booster pickled in xgb_model.pkl.
ModelDirs ==
    [model : {"missing", "corrupt", "ok"}, le_city : {"missing", "corrupt", "ok"},
     le_season : {"missing", "corrupt", "ok"}, booster : Boosters]

\* A load that marks the service loaded although the model file is missing.
LoadMarkingLoaded(svc, dir) ==
    IF dir.model = "missing" THEN [svc EXCEPT !.model_loaded = TRUE]
    ELSE IF dir.model = "corrupt" THEN [svc EXCEPT !.model_loaded = FALSE]
    ELSE [svc EXCEPT !.model = Some(dir.booster),
                     !.le_city = IF dir.le_city = "ok" THEN Some(CityEncoder) ELSE None,
                     !.le_season = IF dir.le_season = "ok"
                                   THEN Some(SeasonEncoder) ELSE None,
                     !.model_loaded = dir.le_city # "corrupt"
                                      /\ dir.le_season # "corrupt"]

\* MLService.load_model: the service after it has run against directory dir.
load_model(svc, dir) ==
    IF dir.model = "missing" THEN svc
    ELSE IF dir.model = "corrupt" THEN [svc EXCEPT !.model_loaded = FALSE]
    ELSE LET s1 == [svc EXCEPT !.model = Some(dir.booster)] IN
         IF dir.le_city = "corrupt" THEN [s1 EXCEPT !.model_loaded = FALSE]
         ELSE LET s2 == IF dir.le_city = "ok"
                        THEN [s1 EXCEPT !.le_city = Some(CityEncoder)] ELSE s1 IN
              IF dir.le_season = "corrupt" THEN [s2 EXCEPT !.model_loaded = FALSE]
              ELSE LET s3 == IF dir.le_season = "ok"
                             THEN [s2 EXCEPT !.le_season = Some(SeasonEncoder)] ELSE s2 IN
                   [s3 EXCEPT !.model_loaded = TRUE]

\* A fallback that reports the confidence of a successful inference.
ConfidentFallback(reason) ==
    [predicted_price |-> 450, confidence_score |-> 85, model_status |-> "error",
     error |-> reason]

\* MLService._fallback_response
_fallback_response(reason) ==
    [predicted_price |-> 450, confidence_score |-> 0, model_status |-> "error",
     error |-> reason]

\* MLService.predict_price; humidity, max_temp, rainfall and month may be None,
\* and month = None reads the month of datetime.now().
predict_price(svc, now, city, temperature, humidity, max_temp, rainfall, month) ==
    IF ~svc.model_loaded \/ svc.model = None
    THEN [predicted_price |-> 450, confidence_score |-> 0, model_status |-> "not_loaded"]
    ELSE
      LET m == IF month = None THEN YMD(now).month ELSE The(month)
          season == get_season(m)
          hum == IF humidity = None THEN 650 ELSE The(humidity)
          mx == IF max_temp = None THEN temperature + 40 ELSE The(max_temp)
          rain == IF rainfall = None
                  THEN (CASE season = "Monsoon" -> 1500
                          [] season = "PostMonsoon" -> 800
                          [] season = "Winter" -> 200
                          [] season = "Summer" -> 400
                          [] OTHER -> 500)
                  ELSE The(rainfall)
      IN
      IF svc.le_city = None THEN _fallback_response("city_encoder_missing")
      ELSE LET c == transform(The(svc.le_city), city) IN
      IF ~c.ok THEN _fallback_response(c.exc)
      ELSE IF svc.le_season = None THEN _fallback_response("season_encoder_missing")
      ELSE LET sc == transform(The(svc.le_season), season) IN
      IF ~sc.ok THEN _fallback_response(sc.exc)
      ELSE LET row == <<c.val, m, sc.val, temperature, mx, hum, rain>>
               out == BoosterPredict(The(svc.model), row) IN
      IF ~out.ok THEN _fallback_response(out.exc)
      ELSE [predicted_price |-> out.val, confidence_score |-> 85,
            model_status |-> "active"]

\* -------------------------------------------------------- weather service

Sum(s) == LET RECURSIVE S(_)
              S(i) == IF i = 0 THEN 0 ELSE s[i] + S(i - 1)
          IN  S(Len(s))

MaxOf(s) == CHOOSE x \in {s[i] : i \in 1..Len(s)} : \A j \in 1..Len(s) : s[j] <= x
MinOf(s) == CHOOSE x \in {s[i] : i \in 1..Len(s)} : \A j \in 1..Len(s) : s[j] >= x

\* A filter that keeps a null reading as the value 0.
ZeroForNone(xs) == [i \in 1..Len(xs) |-> IF xs[i] = None THEN 0 ELSE The(xs[i])]

\* [x for x in xs if x is not None]
NotNone(xs) == LET RECURSIVE F(_)
                   F(i) == IF i = 0 THEN <<>>
                           ELSE IF xs[i] = None THEN F(i - 1)
                           ELSE Append(F(i - 1), The(xs[i]))
               IN  F(Len(xs))

\* statistics.mean, to the tenth below.
mean(xs) == Sum(xs) \div Len(xs)

\* WeatherService._calculate_daily_stats
_calculate_daily_stats(date_str, data) ==
    LET temps == NotNone(data.temps)
        rains == NotNone(data.rains)
        humidities == NotNone(data.humidities)
    IN  [date |-> date_str,
         avg_temp |-> IF temps # <<>> THEN mean(temps) ELSE 250,
         max_temp |-> IF temps # <<>> THEN MaxOf(temps) ELSE 280,
         min_temp |-> IF temps # <<>> THEN MinOf(temps) ELSE 220,
         humidity |-> IF humidities # <<>> THEN mean(humidities) ELSE 650,
         rainfall |-> IF rains # <<>> THEN Sum(rains) ELSE 0]

EmptyDay == [temps |-> <<>>, rains |-> <<>>, humidities |-> <<>>]

\* The return of _process_hourly_data: the first day is the current weather.
DailyResult(daily_forecasts) ==
    Ok([current |-> IF daily_forecasts # <<>> THEN Some(daily_forecasts[1]) ELSE None,
        forecast |-> daily_forecasts])

\* The three appends of one pass of the loop.
AppendSample(data, hourly, i) ==
    [temps |-> Append(data.temps, hourly.temperature_2m[i]),
     rains |-> Append(data.rains, hourly.rain[i]),
     humidities |-> Append(data.humidities, hourly.relative_humidity_2m[i])]

\* The loop of _process_hourly_data from sample i on.  A timestamp counts hours
\* from 2025-01-01T00:00 local, so datetime.fromtimestamp(ts).date() is ts \div 24.
RECURSIVE ProcessFrom(_, _, _, _, _)
RECURSIVE ProcessSample(_, _, _, _, _, _)
ProcessFrom(hourly, i, daily_forecasts, current_date, current_day_data) ==
    IF i > Len(hourly.time)
    THEN DailyResult(IF current_day_data.temps # <<>>
                     THEN Append(daily_forecasts,
                                 _calculate_daily_stats(The(current_date),
                                                        current_day_data))
                     ELSE daily_forecasts)
    ELSE ProcessSample(hourly, i, daily_forecasts,
                       IF current_date = None
                       THEN isoformat(hourly.time[i] \div 24) ELSE The(current_date),
                       isoformat(hourly.time[i] \div 24), current_day_data)

\* A pass of the loop that flushes the collected day without emptying it.
ProcessKeeping(hourly, i, daily_forecasts, current_date, date_str, current_day_data) ==
    IF \/ i > Len(hourly.temperature_2m)
       \/ i > Len(hourly.rain)
       \/ i > Len(hourly.relative_humidity_2m)
    THEN Raise("IndexError")
    ELSE ProcessFrom(hourly, i + 1,
                     IF date_str # current_date /\ current_day_data.temps # <<>>
                     THEN Append(daily_forecasts,
                                 _calculate_daily_stats(current_date, current_day_data))
                     ELSE daily_forecasts,
                     Some(date_str),
                     AppendSample(current_day_data, hourly, i))

\* One pass of the loop: date_str is the day of sample i and current_date the day
\* being collected; a new day flushes the collected one.
ProcessSample(hourly, i, daily_forecasts, current_date, date_str, current_day_data) ==
    IF \/ i > Len(hourly.temperature_2m)
       \/ i > Len(hourly.rain)
       \/ i > Len(hourly.relative_humidity_2m)
    THEN Raise("IndexError")
    ELSE ProcessFrom(hourly, i + 1,
                     IF date_str # current_date /\ current_day_data.temps # <<>>
                     THEN Append(daily_forecasts,
                                 _calculate_daily_stats(current_date, current_day_data))
                     ELSE daily_forecasts,
                     Some(date_str),
                     AppendSample(IF date_str # current_date
                                  THEN EmptyDay ELSE current_day_data,
                                  hourly, i))

\* WeatherService._process_hourly_data
_process_hourly_data(hourly) == ProcessFrom(hourly, 1, <<>>, None, EmptyDay)

\* Fallback data built from the summary of a day without a valid sample.
FallbackFromDailyDefaults(now, days) ==
    LET forecast == [i \in 1..days |->
                       _calculate_daily_stats(isoformat(now + (i - 1)),
                           [temps |-> <<None>>, rains |-> <<None>>,
                            humidities |-> <<None>>])]
    IN  [current |-> Some(forecast[1]), forecast |-> forecast]

\* WeatherService._get_fallback_data
_get_fallback_data(now, days) ==
    LET forecast == [i \in 1..days |->
                       [date |-> isoformat(now + (i - 1)),
                        avg_temp |-> 240, max_temp |-> 280, min_temp |-> 200,
                        humidity |-> 650, rainfall |-> 0]]
    IN  [current |-> Some(forecast[1]), forecast |-> forecast]

\* The summary log line of get_weather_data: it reads current.get(...) and raises
\* AttributeError when the payload held no sample.
LogSummary(processed) ==
    IF ~processed.ok THEN processed
    ELSE IF processed.val.current = None THEN Raise("AttributeError")
    ELSE processed

\* The try block of get_weather_data: net = "error" is a transport error, an error
\* status or a body that is not JSON.
WeatherTry(hourly, net) ==
    IF net = "error" THEN Raise("HTTPError")
    ELSE LogSummary(_process_hourly_data(hourly))

\* The except clause of get_weather_data.
ExceptFallback(tried, now, days) ==
    IF tried.ok THEN tried.val ELSE _get_fallback_data(now, days)

\* A get_weather_data that answers a failed fetch with no data at all.
WeatherOrNothing(hourly, now, days, net) ==
    LET tried == WeatherTry(hourly, net) IN
    IF tried.ok THEN tried.val ELSE [current |-> None, forecast |-> <<>>]

\* WeatherService.get_weather_data
get_weather_data(hourly, now, days, net) ==
    ExceptFallback(WeatherTry(hourly, net), now, days)

\* ------------------------------------------------- recommendation service

\* The predict_price call of generate_recommendation (no month is passed).
NowPrediction(svc, now, city, weather_data) ==
    predict_price(svc, now, city, weather_data.avg_temp, Some(weather_data.humidity),
                  Some(weather_data.max_temp), Some(weather_data.rainfall), None)

\* The dict generate_recommendation returns, given the prediction it obtained.
Recommendation(prediction, now, utcnow, city, user_id, weather_data) ==
    LET avg_temp == weather_data.avg_temp
        max_temp == weather_data.max_temp
        humidity == weather_data.humidity
        rainfall == weather_data.rainfall
        start_date == apply_temperature_constraints(now + 1, avg_temp)
        duration_days == get_optimal_rearing_duration(avg_temp)
        end_date == calculate_end_date(start_date, duration_days)
    IN  [user_id |-> user_id,
         city |-> city,
         start_date |-> date_to_datetime(start_date),
         end_date |-> date_to_datetime(end_date),
         predicted_price |-> prediction.predicted_price,
         confidence_score |-> prediction.confidence_score,
         weather_conditions |-> [temperature |-> avg_temp, max_temp |-> max_temp,
                                 humidity |-> humidity, rainfall |-> rainfall],
         created_at |-> utcnow]

\* generate_recommendation: the record handed to save_recommendation.
generate_recommendation(svc, now, utcnow, city, user_id, weather_data) ==
    Recommendation(NowPrediction(svc, now, city, weather_data),
                   now, utcnow, city, user_id, weather_data)

\* The forecast list taken whole.
WholeForecast(weather_forecasts) == weather_forecasts

\* weather_forecasts[:10]
forecast_days(weather_forecasts) ==
    SubSeq(weather_forecasts, 1,
           IF Len(weather_forecasts) < 10 THEN Len(weather_forecasts) ELSE 10)

\* A call for one day that leaves the month to predict_price, which then reads
\* the month of the day the request is made.
DayPredictionThisMonth(svc, now, city, day_weather) ==
    predict_price(svc, now, city, day_weather.avg_temp, Some(day_weather.humidity),
                  Some(day_weather.max_temp), Some(day_weather.rainfall), None)

\* The predict_price call of generate_10day_predictions for one day.
DayPrediction(svc, now, city, day_weather) ==
    predict_price(svc, now, city, day_weather.avg_temp, Some(day_weather.humidity),
                  Some(day_weather.max_temp), Some(day_weather.rainfall),
                  Some(YMD(strptime(day_weather.date).val).month))

\* The dict appended for one day, given the day's prediction.
Candidate(day_weather, prediction) ==
    LET prediction_date == strptime(day_weather.date).val IN
    [date |-> prediction_date,
     predicted_price |-> prediction.predicted_price,
     end_date |-> calculate_end_date(prediction_date,
                                     get_optimal_rearing_duration(day_weather.avg_temp)),
     temperature |-> day_weather.avg_temp,
     is_best_date |-> FALSE]

\* A max that keeps the last of several maximal elements.
LastBest(predictions) ==
    CHOOSE i \in 1..Len(predictions) :
        /\ \A j \in 1..Len(predictions) :
              predictions[j].predicted_price <= predictions[i].predicted_price
        /\ \A j \in (i + 1)..Len(predictions) :
              predictions[j].predicted_price < predictions[i].predicted_price

\* max(predictions, key=lambda x: x["predicted_price"]): the index of the first
\* element whose price no other exceeds.
BestIndex(predictions) ==
    CHOOSE i \in 1..Len(predictions) :
        /\ \A j \in 1..Len(predictions) :
              predictions[j].predicted_price <= predictions[i].predicted_price
        /\ \A j \in 1..(i - 1) :
              predictions[j].predicted_price < predictions[i].predicted_price

\* The best-date flag of generate_10day_predictions and its return.
FlagBest(predictions) ==
    IF predictions # <<>>
    THEN Ok([predictions EXCEPT ![BestIndex(predictions)].is_best_date = TRUE])
    ELSE Ok(predictions)

\* The loop of generate_10day_predictions over the days it keeps.
PredictDays(svc, now, city, days) ==
    IF \E i \in 1..Len(days) : ~strptime(days[i].date).ok
    THEN Raise("ValueError")
    ELSE FlagBest([i \in 1..Len(days) |->
                     Candidate(days[i], DayPrediction(svc, now, city, days[i]))])

\* generate_10day_predictions: the list of candidates, or the ValueError of
\* strptime on a malformed date.
generate_10day_predictions(svc, now, city, weather_forecasts) ==
    PredictDays(svc, now, city, forecast_days(weather_forecasts))

\* The document with the _id insert_one gives it.
WithId(doc, id) ==
    [k \in DOMAIN doc \cup {"_id"} |-> IF k = "_id" THEN id ELSE doc[k]]

\* A save that issues the insert a second time after the first succeeded.
SaveTwice(collection, recommendation_data, db) ==
    IF db = "ok"
    THEN Ok([collection |->
                 Append(Append(collection,
                               WithId(recommendation_data, Len(collection) + 1)),
                        WithId(recommendation_data, Len(collection) + 2)),
             inserted_id |-> Len(collection) + 2])
    ELSE Raise("PyMongoError")

\* save_recommendation: insert_one stores the document and its id is returned,
\* or insert_one raises (db = "error") and nothing is stored.
save_recommendation(collection, recommendation_data, db) ==
    IF db = "ok"
    THEN Ok([collection |-> Append(collection,
                                   WithId(recommendation_data, Len(collection) + 1)),
             inserted_id |-> Len(collection) + 1])
    ELSE Raise("PyMongoError")

\* Whether datetime a is earlier than datetime b.
Earlier(a, b) == a.date < b.date \/ (a.date = b.date /\ a.time < b.time)

\* find({"user_id": user_id}): the matching documents, in insertion order.
RECURSIVE Find(_, _)
Find(collection, user_id) ==
    IF collection = <<>> THEN <<>>
    ELSE LET found == Find(SubSeq(collection, 1, Len(collection) - 1), user_id)
             doc == collection[Len(collection)]
         IN  IF doc.user_id = user_id THEN Append(found, doc) ELSE found

\* The orders in which n documents can be returned.
Orders(n) == {p \in [1..n -> 1..n] : \A i, j \in 1..n : i # j => p[i] # p[j]}

\* .sort("created_at", -1): every order of the documents in which no document
\* comes before a later one; documents created at the same instant come in
\* either order.
Sort(docs) ==
    {[k \in 1..Len(docs) |-> docs[p[k]]] :
        p \in {q \in Orders(Len(docs)) :
                 \A k \in 1..(Len(docs) - 1) :
                    ~Earlier(docs[q[k]].created_at, docs[q[k + 1]].created_at)}}

\* .limit(limit) as the driver sends it: 0 is no limit, and a negative limit asks
\* for that many documents in a single batch.
Limit(docs, limit) ==
    IF limit = 0 THEN docs
    ELSE LET n == IF limit < 0 THEN 0 - limit ELSE limit IN
         SubSeq(docs, 1, IF Len(docs) < n THEN Len(docs) ELSE n)

\* The dict get_user_recommendations appends for a document.
HistoryEntry(doc) ==
    [id |-> doc._id, city |-> doc.city, start_date |-> doc.start_date,
     end_date |-> doc.end_date, predicted_price |-> doc.predicted_price,
     created_at |-> doc.created_at]

\* get_user_recommendations: the lists it may return.
get_user_recommendations(user_id, collection, limit) ==
    {[k \in 1..Len(Limit(sorted, limit)) |-> HistoryEntry(Limit(sorted, limit)[k])] :
        sorted \in Sort(Find(collection, user_id))}

\* ----------------------------------------------------------------- routes

\* A role check that lets every registered user through.
AnyRegisteredUser(user) == user # None

\* verify_farmer_role on the user document find_one returned (None: no such user).
verify_farmer_role(user) == user # None /\ The(user).role = "Farmer"

NoCall ==
    [op |-> "none", city |-> "", status |-> 0, weather_failed |-> FALSE,
     weather |-> None, results |-> <<>>, inserts |-> 0, save_failed |-> FALSE,
     body |-> None, user |-> None]

\* PredictionResponse(...)
PredictionResponse(recommendation_id, recommendation) ==
    [recommendation_id |-> recommendation_id,
     city |-> recommendation.city,
     start_date |-> datetime_to_date(recommendation.start_date),
     end_date |-> datetime_to_date(recommendation.end_date),
     predicted_price |-> recommendation.predicted_price,
     confidence_score |-> recommendation.confidence_score,
     weather_conditions |-> recommendation.weather_conditions,
     created_at |-> recommendation.created_at]

\* TenDayPrediction(...)
TenDayPrediction(pred) ==
    [date |-> pred.date, predicted_price |-> pred.predicted_price,
     end_date |-> pred.end_date, is_best_date |-> pred.is_best_date]

\* A response whose headline is the last of several candidates at the maximum.
HeadlineOfLastBest(predictions) ==
    LET best_prediction == predictions[LastBest(predictions)] IN
    [predictions |-> [i \in 1..Len(predictions) |-> TenDayPrediction(predictions[i])],
     best_start_date |-> best_prediction.date,
     best_predicted_price |-> best_prediction.predicted_price]

\* TenDayGraphResponse(...)
TenDayGraphResponse(predictions) ==
    LET best_prediction == predictions[BestIndex(predictions)] IN
    [predictions |-> [i \in 1..Len(predictions) |-> TenDayPrediction(predictions[i])],
     best_start_date |-> best_prediction.date,
     best_predicted_price |-> best_prediction.predicted_price]

\* The weather fetch of a route: the call record once get_weather_data returned.
Fetch(base, net, days) ==
    [base EXCEPT !.weather_failed = ~WeatherTry(provider, net).ok,
                 !.weather = Some(get_weather_data(provider, today, days, net))]

\* An end of the handler that issues the insert again when the save raised and
\* answers 201 from the second attempt.
RespondAfterRetry(tried, recommendation, saved) ==
    IF ~saved.ok
    THEN [call |-> [tried EXCEPT
                      !.status = 201,
                      !.inserts = 2,
                      !.body = Some(PredictionResponse(Len(recommendations) + 1,
                                                       recommendation))],
          collection |-> Append(recommendations,
                                WithId(recommendation, Len(recommendations) + 1))]
    ELSE [call |-> [tried EXCEPT
                      !.status = 201,
                      !.body = Some(PredictionResponse(saved.val.inserted_id,
                                                       recommendation))],
          collection |-> saved.val.collection]

\* The end of generate_cocoon_recommendation: 500 when the save raised, else 201
\* with the PredictionResponse.
PredictRespond(tried, recommendation, saved) ==
    IF ~saved.ok
    THEN [call |-> [tried EXCEPT !.status = 500], collection |-> recommendations]
    ELSE [call |-> [tried EXCEPT
                      !.status = 201,
                      !.body = Some(PredictionResponse(saved.val.inserted_id,
                                                       recommendation))],
          collection |-> saved.val.collection]

\* save_recommendation(recommendation) in generate_cocoon_recommendation.
PredictSave(tried, recommendation, db) ==
    PredictRespond(
        [tried EXCEPT !.save_failed =
            ~save_recommendation(recommendations, recommendation, db).ok],
        recommendation,
        save_recommendation(recommendations, recommendation, db))

\* generate_cocoon_recommendation once the weather is fetched: 503 without
\* current weather, else the recommendation is generated and saved.
PredictFetched(fetched, user, city, db) ==
    IF The(fetched.weather).current = None
    THEN [call |-> [fetched EXCEPT !.status = 503], collection |-> recommendations]
    ELSE PredictSave(
            [fetched EXCEPT
               !.results = <<NowPrediction(ml, today, city,
                                           The(The(fetched.weather).current))>>,
               !.inserts = 1],
            generate_recommendation(ml, today, [date |-> today, time |-> clock],
                                    city, The(user).id,
                                    The(The(fetched.weather).current)),
            db)

\* generate_cocoon_recommendation (POST /predict): the call record and the
\* collection after it.
PredictOutcome(user, city, net, db) ==
    IF ~verify_farmer_role(user)
    THEN [call |-> [NoCall EXCEPT !.op = "predict", !.city = city, !.user = user,
                                  !.status = 403],
          collection |-> recommendations]
    ELSE PredictFetched(Fetch([NoCall EXCEPT !.op = "predict", !.city = city,
                                             !.user = user], net, 16),
                        user, city, db)

\* The end of get_10day_prediction_graph: 500 when the predictions raised or are
\* empty, else 200 with the TenDayGraphResponse.
GraphRespond(fetched, city, predictions) ==
    IF ~predictions.ok \/ predictions.val = <<>>
    THEN [fetched EXCEPT !.status = 500]
    ELSE [fetched EXCEPT
            !.status = 200,
            !.results = [i \in 1..Len(predictions.val) |->
                           DayPrediction(ml, today, city,
                                         The(fetched.weather).forecast[i])],
            !.body = Some(TenDayGraphResponse(predictions.val))]

\* get_10day_prediction_graph once the weather is fetched: 503 without a forecast.
GraphFetched(fetched, city) ==
    IF The(fetched.weather).forecast = <<>>
    THEN [fetched EXCEPT !.status = 503]
    ELSE GraphRespond(fetched, city,
                      generate_10day_predictions(ml, today, city,
                                                 The(fetched.weather).forecast))

\* get_10day_prediction_graph (GET /10day-graph): the call record after it.
GraphOutcome(user, city, net) ==
    IF ~verify_farmer_role(user)
    THEN [NoCall EXCEPT !.op = "graph", !.city = city, !.user = user, !.status = 403]
    ELSE GraphFetched(Fetch([NoCall EXCEPT !.op = "graph", !.city = city,
                                           !.user = user], net, 12),
                      city)

\* RecommendationHistoryItem(...)
RecommendationHistoryItem(rec) ==
    [id |-> rec.id, city |-> rec.city,
     start_date |-> datetime_to_date(rec.start_date),
     end_date |-> datetime_to_date(rec.end_date),
     predicted_price |-> rec.predicted_price, created_at |-> rec.created_at]

\* RecommendationHistoryResponse(...)
RecommendationHistoryResponse(history) ==
    [recommendations |-> [k \in 1..Len(history) |-> RecommendationHistoryItem(history[k])],
     total |-> Len(history)]

\* get_recommendation_history (GET /history): the call records it may end with;
\* db = "error" is a find that raises.
HistoryOutcome(user, limit, db) ==
    IF ~verify_farmer_role(user)
    THEN {[op |-> "history", user |-> user, limit |-> limit, status |-> 403,
           body |-> None]}
    ELSE IF db = "error"
    THEN {[op |-> "history", user |-> user, limit |-> limit, status |-> 500,
           body |-> None]}
    ELSE {[op |-> "history", user |-> user, limit |-> limit, status |-> 200,
           body |-> Some(RecommendationHistoryResponse(history))] :
            history \in get_user_recommendations(The(user).id, recommendations, limit)}

\* ------------------------------------------------------------ farmer routes

\* A POST /profile request not yet received.
NoPost ==
    [pc |-> "idle", user_id |-> "", district |-> "", existing |-> FALSE,
     status |-> 0, response |-> None]

\* farmers_collection.find_one({"user_id": user_id}): the first such document.
find_profile(collection, user_id) ==
    IF \E i \in 1..Len(collection) : collection[i].user_id = user_id
    THEN Some(collection[CHOOSE i \in 1..Len(collection) :
                           /\ collection[i].user_id = user_id
                           /\ \A j \in 1..(i - 1) : collection[j].user_id # user_id])
    ELSE None

\* update_one({"user_id": user_id}, {"$set": update_data}): the first matching
\* document gets the fields of update_data, its other fields stay.
update_one(collection, user_id, district, utcnow) ==
    LET found == find_profile(collection, user_id) IN
    [i \in 1..Len(collection) |->
        IF found # None /\ collection[i].id = The(found).id
        THEN [collection[i] EXCEPT !.district = district, !.updated_at = utcnow]
        ELSE collection[i]]

\* profile_doc of the insert branch, with the _id insert_one gives it.
profile_doc(collection, user_id, district, utcnow) ==
    [id |-> Len(collection) + 1, user_id |-> user_id, district |-> district,
     created_at |-> utcnow, updated_at |-> utcnow]

\* FarmerProfileResponse(...) of either branch.
FarmerProfileResponse(doc) ==
    [id |-> doc.id, user_id |-> doc.user_id, district |-> doc.district,
     created_at |-> doc.created_at, updated_at |-> doc.updated_at]

\* The request up to its first await on the farmers collection: the role check
\* answers 403, or find_one tells which branch is taken.
ProfileCheck(request, user, district, collection) ==
    IF ~verify_farmer_role(user)
    THEN [request EXCEPT !.pc = "done", !.status = 403]
    ELSE [request EXCEPT !.pc = "found", !.user_id = The(user).id,
                         !.district = district,
                         !.existing = find_profile(collection, The(user).id) # None]

\* -------------------------------------------------------------- health route

\* MLService.health_check
ml_health(svc) ==
    [model_loaded |-> svc.model_loaded,
     model_type |-> IF svc.model # None THEN Some("XGBRegressor") ELSE None,
     city_encoder |-> svc.le_city # None,
     season_encoder |-> svc.le_season # None,
     status |-> IF svc.model_loaded THEN "healthy" ELSE "model_not_loaded"]

\* The database block of health_check: client is "none" before connect_to_mongo
\* has run, ping is "error" when the ping command raises.
DatabaseHealth(client, ping) ==
    IF client = "none"
    THEN [database |-> [status |-> "disconnected", detail |-> "Client not initialized"],
          status |-> "degraded"]
    ELSE IF ping = "error"
    THEN [database |-> [status |-> "error", detail |-> "ping"], status |-> "unhealthy"]
    ELSE [database |-> [status |-> "connected", detail |-> "MongoDB"], status |-> "healthy"]

\* The model block of health_check, run on the status the database block left.
ModelHealth(status, health) ==
    IF ~health.model_loaded
    THEN [ml_model |-> [health |-> health, warning |-> Some("Model not loaded")],
          status |-> "degraded"]
    ELSE [ml_model |-> [health |-> health, warning |-> None], status |-> status]

\* The HealthResponse assembled from the two blocks.
HealthResponse(utcnow, db_block, ml_block) ==
    [op |-> "health",
     status |-> ml_block.status,
     timestamp |-> utcnow,
     database |-> db_block.database,
     ml_model |-> ml_block.ml_model,
     api |-> [status |-> "running", version |-> "1.0.0"]]

\* The database block, then the model block on its status.
HealthBlocks(svc, utcnow, db_block) ==
    HealthResponse(utcnow, db_block, ModelHealth(db_block.status, ml_health(svc)))

\* health_check (GET /api/health/)
health_check(svc, utcnow, client, ping) ==
    HealthBlocks(svc, utcnow, DatabaseHealth(client, ping))

\* --------------------------------------------------------------- auth routes

\* A register request not yet received.
NoRequest == [pc |-> "idle", email |-> "", role |-> "", status |-> 0, detail |-> ""]

NoRequests == [r \in 1..MaxRegistrations |-> NoRequest]

\* users_collection.find_one({"email": email}): the first document with the email.
find_one(collection, email) ==
    IF \E i \in 1..Len(collection) : collection[i].email = email
    THEN Some(collection[CHOOSE i \in 1..Len(collection) :
                           /\ collection[i].email = email
                           /\ \A j \in 1..(i - 1) : collection[j].email # email])
    ELSE None

\* user_doc of register_user, with the _id insert_one gives it.
UserDoc(email, role, utcnow, id) ==
    [_id |-> id, email |-> email, role |-> role, created_at |-> utcnow]

\* register_user up to the await of insert_one: the uniqueness check.
RegisterCheck(request, collection, email, role) ==
    IF find_one(collection, email) # None
    THEN [request EXCEPT !.pc = "done", !.email = email, !.role = role,
                         !.status = 400, !.detail = "Email already registered"]
    ELSE [request EXCEPT !.pc = "inserting", !.email = email, !.role = role]

\* register_user from insert_one on: the document is stored and 201 answered.
RegisterStore(request, collection, utcnow) ==
    [request |-> [request EXCEPT !.pc = "done", !.status = 201],
     collection |-> Append(collection,
                           UserDoc(request.email, request.role, utcnow,
                                   Len(collection) + 1))]

\* ------------------------------------------------------------ environment

\* The user documents a token may resolve to.
Users == {None, Some([id |-> "farmer1", role |-> "Farmer"]),
          Some([id |-> "admin1", role |-> "Admin"])}

Cities == {"Bengaluru", "Atlantis"}

\* The day requests are served on: 2025-04-10.
Todays == {MkDate(2025, 4, 10)}

\* The day a forecast list starts on: 2025-09-25, from where ten days reach
\* into October.
WindowStarts == {MkDate(2025, 9, 25)}

\* One hourly sample's readings, each possibly null.
Readings ==
    { [t |-> None, r |-> None, h |-> None],
      [t |-> Some(190), r |-> Some(0), h |-> Some(650)],
      [t |-> Some(290), r |-> Some(25), h |-> Some(800)] }

\* The payloads of n samples starting at midnight of day now: each sample is an
\* hour later than the one before, or on the next day.
RECURSIVE Payloads(_, _)
Payloads(now, n) ==
    IF n = 0
    THEN {[time |-> <<>>, temperature_2m |-> <<>>, rain |-> <<>>,
           relative_humidity_2m |-> <<>>]}
    ELSE {[time |-> Append(p.time,
                           IF p.time = <<>> THEN 24 * now
                           ELSE p.time[Len(p.time)] + step),
           temperature_2m |-> Append(p.temperature_2m, x.t),
           rain |-> Append(p.rain, x.r),
           relative_humidity_2m |-> Append(p.relative_humidity_2m, x.h)] :
            p \in Payloads(now, n - 1), x \in Readings, step \in {1, 24}}

\* A body whose temperature array is shorter than its time array.
Truncated(p) == [p EXCEPT !.temperature_2m = SubSeq(@, 1, Len(@) - 1)]

ProviderPayloads(now) ==
    LET whole == UNION {Payloads(now, n) : n \in 0..MaxSamples} IN
    whole \cup {Truncated(p) : p \in Payloads(now, 1)}

\* ---------------------------------------------------------- specification

Init ==
    /\ users = <<>>
    /\ requests = NoRequests
    /\ farmers = <<>>
    /\ phase = "startup"
    /\ ml = MLServiceInit
    /\ today \in Todays
    /\ clock = 1
    /\ provider \in ProviderPayloads(today)
    /\ recommendations = <<>>
    /\ forecasts = <<>>
    /\ call = NoCall

\* lifespan: load_model runs once, before any request is served.
Startup(dir) ==
    /\ phase = "startup"
    /\ ml' = load_model(ml, dir)
    /\ phase' = "serving"
    /\ UNCHANGED <<today, clock, provider, recommendations, forecasts, call, users, requests, farmers>>

Predict(user, city, net, db) ==
    /\ phase = "serving"
    /\ clock <= MaxRecs
    /\ \E out \in {PredictOutcome(user, city, net, db)} :
         /\ call' = out.call
         /\ recommendations' = out.collection
         /\ clock' = IF out.call.inserts > 0 THEN clock + 1 ELSE clock
    /\ UNCHANGED <<phase, ml, today, provider, forecasts, users, requests, farmers>>

Graph(user, city, net) ==
    /\ phase = "serving"
    /\ call' = GraphOutcome(user, city, net)
    /\ UNCHANGED <<phase, ml, today, clock, provider, recommendations, forecasts, users, requests, farmers>>

Next ==
    \/ \E dir \in ModelDirs : Startup(dir)
    \/ \E user \in Users, city \in Cities, net \in {"ok", "error"}, db \in {"ok", "error"} :
          Predict(user, city, net, db)
    \/ \E user \in Users, city \in Cities, net \in {"ok", "error"} :
          Graph(user, city, net)

Spec == Init /\ [][Next]_vars

\* --------------------------------------- the window search on its own

\* The services a forecast list is searched under: nothing loaded, and every
\* file loaded with a booster that answers.
WindowServices ==
    {MLServiceInit,
     load_model(MLServiceInit,
                [model |-> "ok", le_city |-> "ok", le_season |-> "ok",
                 booster |-> "thermal"])}

\* The readings a forecast day is summarised from.
DayReadings == {x \in Readings : x.t # None}

EmptyPayload ==
    [time |-> <<>>, temperature_2m |-> <<>>, rain |-> <<>>, relative_humidity_2m |-> <<>>]

InitWindow ==
    /\ users = <<>>
    /\ requests = NoRequests
    /\ farmers = <<>>
    /\ phase = "serving"
    /\ ml \in WindowServices
    /\ today \in WindowStarts
    /\ clock = 1
    /\ provider = EmptyPayload
    /\ recommendations = <<>>
    /\ forecasts = <<>>
    /\ call = NoCall

\* The caller adds the summary of the next day to the list.
AppendDay(x) ==
    /\ Len(forecasts) < MaxDays
    /\ forecasts' = Append(forecasts,
                           _calculate_daily_stats(isoformat(today + Len(forecasts)),
                               [temps |-> <<x.t>>, rains |-> <<x.r>>,
                                humidities |-> <<x.h>>]))
    /\ call' = NoCall
    /\ UNCHANGED <<phase, ml, today, clock, provider, recommendations, users, requests, farmers>>

\* generate_10day_predictions(city, forecasts)
RunWindow(city) ==
    /\ LET predictions == generate_10day_predictions(ml, today, city, forecasts) IN
         call' = IF ~predictions.ok
                 THEN [NoCall EXCEPT !.op = "window", !.city = city, !.status = 500]
                 ELSE [NoCall EXCEPT
                         !.op = "window", !.city = city, !.status = 200,
                         !.results = [i \in 1..Len(predictions.val) |->
                                        DayPrediction(ml, today, city, forecasts[i])],
                         !.body = Some(predictions.val)]
    /\ UNCHANGED <<phase, ml, today, clock, provider, recommendations, forecasts, users, requests, farmers>>

NextWindow ==
    \/ \E x \in DayReadings : AppendDay(x)
    \/ \E city \in Cities : RunWindow(city)

SpecWindow == InitWindow /\ [][NextWindow]_vars

\* ------------------------------------------- the aggregation on its own

\* A body whose last two timestamps arrive in the opposite order.
Swapped(p) ==
    [p EXCEPT !.time = [i \in 1..Len(@) |->
                          IF i = Len(@) - 1 THEN @[Len(@)]
                          ELSE IF i = Len(@) THEN @[Len(@) - 1]
                          ELSE @[i]]]

\* The bodies _process_hourly_data is run on: time-ordered series of up to one
\* sample more than a request is served from, the same with the last two
\* timestamps out of order, and a body with a short temperature array.
AggregatePayloads(now) ==
    LET ordered == UNION {Payloads(now, n) : n \in 0..(MaxSamples + 1)} IN
    ordered \cup {Swapped(p) : p \in {q \in ordered : Len(q.time) >= 2}}
            \cup {Truncated(p) : p \in Payloads(now, 1)}

InitAggregate ==
    /\ users = <<>>
    /\ requests = NoRequests
    /\ farmers = <<>>
    /\ phase = "serving"
    /\ ml = MLServiceInit
    /\ today \in Todays
    /\ clock = 1
    /\ provider \in AggregatePayloads(today)
    /\ recommendations = <<>>
    /\ forecasts = <<>>
    /\ call = NoCall

\* _process_hourly_data(data) on the body the provider answered with.
Aggregate ==
    /\ call.op = "none"
    /\ \E processed \in {_process_hourly_data(provider)} :
          call' = IF processed.ok
                  THEN [NoCall EXCEPT !.op = "aggregate", !.status = 200,
                                      !.weather = Some(processed.val)]
                  ELSE [NoCall EXCEPT !.op = "aggregate", !.status = 500]
    /\ UNCHANGED <<phase, ml, today, clock, provider, recommendations, forecasts, users, requests, farmers>>

NextAggregate == Aggregate

SpecAggregate == InitAggregate /\ [][NextAggregate]_vars

\* --------------------------------------------- the rule engine on its own

\* Temperatures from 15.0 to 33.0, in tenths.
RuleTemperatures == 150..330

InitRules ==
    /\ users = <<>>
    /\ requests = NoRequests
    /\ farmers = <<>>
    /\ phase = "serving"
    /\ ml = MLServiceInit
    /\ today \in Todays
    /\ clock = 1
    /\ provider = EmptyPayload
    /\ recommendations = <<>>
    /\ forecasts = <<>>
    /\ \E t \in RuleTemperatures : call = [op |-> "input", temperature |-> t]

\* Both rules applied to the temperature, from tomorrow as the proposed start.
ApplyRules ==
    /\ call.op = "input"
    /\ call' = [op |-> "rules",
                temperature |-> call.temperature,
                proposed |-> today + 1,
                start_date |-> apply_temperature_constraints(today + 1, call.temperature),
                duration |-> get_optimal_rearing_duration(call.temperature)]
    /\ UNCHANGED <<phase, ml, today, clock, provider, recommendations, forecasts, users, requests, farmers>>

NextRules == ApplyRules

SpecRules == InitRules /\ [][NextRules]_vars

\* ------------------------------------------- the price oracle on its own

\* The predict_price calls kept in the state.
MaxCalls == 2

\* A predict_price that unloads the model once an inference has failed.
UnloadOnFailure(svc, result) ==
    IF result.model_status = "error" THEN [svc EXCEPT !.model_loaded = FALSE] ELSE svc

\* The service object after a predict_price call that returned result: the
\* method assigns none of model, le_city, le_season, model_loaded.
ServiceAfterPredict(svc, result) == svc

InitOracle ==
    /\ users = <<>>
    /\ requests = NoRequests
    /\ farmers = <<>>
    /\ phase = "startup"
    /\ ml = MLServiceInit
    /\ today \in Todays
    /\ clock = 1
    /\ provider = EmptyPayload
    /\ recommendations = <<>>
    /\ forecasts = <<>>
    /\ call = NoCall

\* lifespan; the service as load_model left it is kept beside the calls.
LoadOracle(dir) ==
    /\ phase = "startup"
    /\ ml' = load_model(ml, dir)
    /\ phase' = "serving"
    /\ call' = [op |-> "oracle", loaded |-> ml', calls |-> <<>>]
    /\ UNCHANGED <<today, clock, provider, recommendations, forecasts, users, requests, farmers>>

\* One predict_price call of some request. The method is synchronous, so the
\* calls of concurrent requests run one after the other, in any order.
PredictPrice(city, temperature, month) ==
    /\ phase = "serving"
    /\ Len(call.calls) < MaxCalls
    /\ \E result \in {predict_price(ml, today, city, temperature, None, None, None, month)} :
         /\ call' = [call EXCEPT !.calls =
                        Append(@, [city |-> city, temperature |-> temperature,
                                   month |-> month, result |-> result])]
         /\ ml' = ServiceAfterPredict(ml, result)
    /\ UNCHANGED <<phase, today, clock, provider, recommendations, forecasts, users, requests, farmers>>

NextOracle ==
    \/ \E dir \in ModelDirs : LoadOracle(dir)
    \/ \E city \in Cities, temperature \in {190, 290}, month \in {None, Some(10)} :
          PredictPrice(city, temperature, month)

SpecOracle == InitOracle /\ [][NextOracle]_vars

\* ------------------------------------- generate_recommendation on its own

\* generate_recommendation for a farmer, a city and current weather of the
\* given average temperature.
Generate(city) ==
    /\ call.op = "input"
    /\ call' = [op |-> "recommendation",
                temperature |-> call.temperature,
                recommendation |->
                    generate_recommendation(ml, today, clock, city, "farmer1",
                        [avg_temp |-> call.temperature,
                         max_temp |-> call.temperature + 40,
                         humidity |-> 650, rainfall |-> 0])]
    /\ UNCHANGED <<phase, ml, today, clock, provider, recommendations, forecasts, users, requests, farmers>>

NextRecommend == \E city \in Cities : Generate(city)

SpecRecommend == InitRules /\ [][NextRecommend]_vars

\* ------------------------------------- the calendar functions on their own

\* Every day of 2025.
CalendarDates == MkDate(2025, 1, 1)..MkDate(2025, 12, 31)

\* The spans validate_rearing_period is asked about: end before start, the same
\* day, and every span up to the longest.
PeriodOffsets == (0 - 2)..MaxOffset

InitCalendar ==
    /\ users = <<>>
    /\ requests = NoRequests
    /\ farmers = <<>>
    /\ phase = "serving"
    /\ ml = MLServiceInit
    /\ today \in Todays
    /\ clock = 1
    /\ provider = EmptyPayload
    /\ recommendations = <<>>
    /\ forecasts = <<>>
    /\ \E d \in CalendarDates : call = [op |-> "date", date |-> d]

\* get_season on the month of the date, and the rule engine's two season
\* functions on the date.
Seasons ==
    /\ call.op = "date"
    /\ call' = [op |-> "season",
                date |-> call.date,
                month |-> YMD(call.date).month,
                season |-> get_season(YMD(call.date).month),
                rule_season |-> get_season_from_date(call.date),
                favorable |-> is_favorable_season(call.date)]
    /\ UNCHANGED <<phase, ml, today, clock, provider, recommendations, forecasts, users, requests, farmers>>

\* validate_rearing_period(date, date + offset)
Validate(offset) ==
    /\ call.op = "date"
    /\ call' = [op |-> "validate",
                date |-> call.date,
                end_date |-> call.date + offset,
                valid |-> validate_rearing_period(call.date, call.date + offset)]
    /\ UNCHANGED <<phase, ml, today, clock, provider, recommendations, forecasts, users, requests, farmers>>

NextCalendar ==
    \/ Seasons
    \/ \E offset \in PeriodOffsets : Validate(offset)

SpecCalendar == InitCalendar /\ [][NextCalendar]_vars

\* ------------------------------------------------- the history on its own

\* The user documents a token may resolve to when histories are read: two
\* farmers besides the others.
HistoryUsers == Users \cup {Some([id |-> "farmer2", role |-> "Farmer"])}

\* The limit query parameter: any integer is accepted, 10 is the default.
HistoryLimits == {0 - 1, 0, 1, 2, 10}

InitHistory ==
    /\ users = <<>>
    /\ requests = NoRequests
    /\ farmers = <<>>
    /\ phase = "serving"
    /\ ml = MLServiceInit
    /\ today \in Todays
    /\ clock = 1
    /\ provider = EmptyPayload
    /\ recommendations = <<>>
    /\ forecasts = <<>>
    /\ call = NoCall

\* POST /predict; utcnow of the next request reads the same instant (tick = 0)
\* or a later one.
Recommend(user, db, tick) ==
    /\ Len(recommendations) < MaxHistory
    /\ clock <= MaxHistory
    /\ \E out \in {PredictOutcome(user, "Bengaluru", "error", db)} :
         /\ call' = out.call
         /\ recommendations' = out.collection
    /\ clock' = clock + tick
    /\ UNCHANGED <<phase, ml, today, provider, forecasts, users, requests, farmers>>

\* GET /history
History(user, limit, db) ==
    /\ call' \in HistoryOutcome(user, limit, db)
    /\ UNCHANGED <<phase, ml, today, clock, provider, recommendations, forecasts, users, requests, farmers>>

NextHistory ==
    \/ \E user \in HistoryUsers, db \in {"ok", "error"}, tick \in {0, 1} :
          Recommend(user, db, tick)
    \/ \E user \in HistoryUsers, limit \in HistoryLimits, db \in {"ok", "error"} :
          History(user, limit, db)

SpecHistory == InitHistory /\ [][NextHistory]_vars

\* --------------------------------- the three recommendation routes together

\* Requests of farmers, of an admin and of a caller without a user document to
\* POST /predict, GET /history and GET /10day-graph.
NextAccess ==
    \/ NextHistory
    \/ \E user \in HistoryUsers, city \in Cities, net \in {"ok", "error"} :
          Graph(user, city, net)

SpecAccess == InitHistory /\ [][NextAccess]_vars

\* -------------------------------------------------- the health route on its own

\* The instants health checks are made at.
MaxChecks == 4

\* GET /api/health/ once the application serves: connect_to_mongo has set the
\* client, and the ping succeeds or raises.
HealthCheck(ping, tick) ==
    /\ phase = "serving"
    /\ clock + tick <= MaxChecks
    /\ call' = health_check(ml, clock + tick, "ready", ping)
    /\ clock' = clock + tick
    /\ UNCHANGED <<phase, ml, today, provider, recommendations, forecasts, users, requests, farmers>>

NextHealth ==
    \/ \E dir \in ModelDirs : Startup(dir)
    \/ \E ping \in {"ok", "error"}, tick \in {0, 1} : HealthCheck(ping, tick)

SpecHealth == InitOracle /\ [][NextHealth]_vars

\* ----------------------------------------------- the profile route on its own

\* The POST /profile requests in flight together.
MaxPosts == 3

Districts == {"Bengaluru", "Ramanagar"}

InitProfile ==
    /\ users = <<>>
    /\ requests = [r \in 1..MaxPosts |-> NoPost]
    /\ farmers = <<>>
    /\ phase = "serving"
    /\ ml = MLServiceInit
    /\ today \in Todays
    /\ clock = 1
    /\ provider = EmptyPayload
    /\ recommendations = <<>>
    /\ forecasts = <<>>
    /\ call = NoCall

\* A request arrives: role check and find_one, then it waits.
ProfileFind(r, user, district) ==
    /\ requests[r].pc = "idle"
    /\ requests' = [requests EXCEPT ![r] = ProfileCheck(@, user, district, farmers)]
    /\ UNCHANGED <<phase, ml, today, clock, provider, recommendations, forecasts, call,
                   users, farmers>>

\* The insert branch resumes: insert_one and the 201 response.
ProfileInsert(r) ==
    /\ requests[r].pc = "found"
    /\ ~requests[r].existing
    /\ \E doc \in {profile_doc(farmers, requests[r].user_id, requests[r].district, clock)} :
         /\ farmers' = Append(farmers, doc)
         /\ requests' = [requests EXCEPT ![r].pc = "done", ![r].status = 201,
                                         ![r].response = Some(FarmerProfileResponse(doc))]
    /\ clock' = clock + 1
    /\ UNCHANGED <<phase, ml, today, provider, recommendations, forecasts, call, users>>

\* The update branch resumes: update_one, then it waits for the read back.
ProfileUpdate(r) ==
    /\ requests[r].pc = "found"
    /\ requests[r].existing
    /\ farmers' = update_one(farmers, requests[r].user_id, requests[r].district, clock)
    /\ requests' = [requests EXCEPT ![r].pc = "updated"]
    /\ clock' = clock + 1
    /\ UNCHANGED <<phase, ml, today, provider, recommendations, forecasts, call, users>>

\* The update branch ends: find_one again and the 201 response.
ProfileReadBack(r) ==
    /\ requests[r].pc = "updated"
    /\ requests' = [requests EXCEPT
                      ![r].pc = "done", ![r].status = 201,
                      ![r].response =
                          Some(FarmerProfileResponse(
                                 The(find_profile(farmers, requests[r].user_id))))]
    /\ UNCHANGED <<phase, ml, today, clock, provider, recommendations, forecasts, call,
                   users, farmers>>

NextProfile ==
    \/ \E r \in 1..MaxPosts, user \in HistoryUsers, district \in Districts :
          ProfileFind(r, user, district)
    \/ \E r \in 1..MaxPosts : ProfileInsert(r)
    \/ \E r \in 1..MaxPosts : ProfileUpdate(r)
    \/ \E r \in 1..MaxPosts : ProfileReadBack(r)

SpecProfile == InitProfile /\ [][NextProfile]_vars

\* ------------------------------------------------ registration on its own

\* The addresses register requests are made for.
Emails == {"asha@farm.in", "ravi@farm.in"}

Roles == {"Farmer", "Admin"}

InitRegister ==
    /\ phase = "serving"
    /\ ml = MLServiceInit
    /\ today \in Todays
    /\ clock = 1
    /\ provider = EmptyPayload
    /\ recommendations = <<>>
    /\ forecasts = <<>>
    /\ call = NoCall
    /\ users = <<>>
    /\ requests = NoRequests
    /\ farmers = <<>>

\* POST /register is received and runs to its first await that yields to other
\* requests once find_one has answered.
RegisterFind(r, email, role) ==
    /\ requests[r].pc = "idle"
    /\ requests' = [requests EXCEPT ![r] = RegisterCheck(@, users, email, role)]
    /\ UNCHANGED <<phase, ml, today, clock, provider, recommendations, forecasts,
                   call, users, farmers>>

\* The request resumes: insert_one and the response.
RegisterInsert(r) ==
    /\ requests[r].pc = "inserting"
    /\ \E out \in {RegisterStore(requests[r], users, [date |-> today, time |-> clock])} :
         /\ requests' = [requests EXCEPT ![r] = out.request]
         /\ users' = out.collection
    /\ UNCHANGED <<phase, ml, today, clock, provider, recommendations, forecasts, call,
                   farmers>>

NextRegister ==
    \/ \E r \in 1..MaxRegistrations, email \in Emails, role \in Roles :
          RegisterFind(r, email, role)
    \/ \E r \in 1..MaxRegistrations : RegisterInsert(r)

SpecRegister == InitRegister /\ [][NextRegister]_vars

\* ------------------------------------------------------------------ claims

\* Whether a prediction is the model's own estimate, not a substitute.
IsActive(prediction) == prediction.model_status = "active"

\* The result a successful inference returning this price would have been.
ActiveAt(price) ==
    [predicted_price |-> price, confidence_score |-> 85, model_status |-> "active"]

Flagged(predictions) == {i \in 1..Len(predictions) : predictions[i].is_best_date}

\* C1: for a non-empty forecast list, generate_10day_predictions flags exactly one
\* returned candidate; its price is the maximum over the returned candidates, and
\* of several candidates at the maximum the flagged one is the earliest.
C1_BestIsFirstMaximum ==
    (call.op = "window" /\ forecasts # <<>>) =>
        /\ call.status = 200
        /\ LET predictions == The(call.body) IN
           /\ Cardinality(Flagged(predictions)) = 1
           /\ \A i \in Flagged(predictions) :
                /\ \A j \in 1..Len(predictions) :
                      predictions[j].predicted_price <= predictions[i].predicted_price
                /\ \A j \in 1..(i - 1) :
                      predictions[j].predicted_price < predictions[i].predicted_price

\* C1 witness: three candidates at the maximum price, a cheaper one before them,
\* and the first of the three flagged.
C1_Witness ==
    /\ call.op = "window"
    /\ call.status = 200
    /\ LET predictions == The(call.body) IN
       \E i, j, k, l \in 1..Len(predictions) :
          /\ l < i /\ i < j /\ j < k
          /\ predictions[i].is_best_date
          /\ predictions[l].predicted_price < predictions[i].predicted_price
          /\ predictions[j].predicted_price = predictions[i].predicted_price
          /\ predictions[k].predicted_price = predictions[i].predicted_price

\* C2: a recommend-now request for a city the loaded city encoder does not know
\* is rejected, and inserts nothing.
C2_UnknownCityRejected ==
    ( /\ call.op = "predict"
      /\ call.status # 403
      /\ ml.le_city # None
      /\ ~transform(The(ml.le_city), call.city).ok )
    => (call.status # 201 /\ call.inserts = 0)

\* C3: every result of predict_price that is not a successful inference has price
\* 450.0, confidence 0.0, a status other than active and a reason string.
C3_FallbackCarriesReason ==
    \A i \in 1..Len(call.results) :
        LET r == call.results[i] IN
        ~IsActive(r) =>
            /\ r.predicted_price = 450
            /\ r.confidence_score = 0
            /\ r.model_status \in {"error", "not_loaded", "fallback"}
            /\ "error" \in DOMAIN r

\* C4, as stated: a list of n >= 1 days comes back as n candidates, one per day in
\* the order of the input.
C4_OnePerInputDay ==
    (call.op = "window" /\ forecasts # <<>>) =>
        /\ call.status = 200
        /\ Len(The(call.body)) = Len(forecasts)
        /\ \A i \in 1..Len(forecasts) :
              isoformat(The(call.body)[i].date) = forecasts[i].date

\* C4, amended: a list of n >= 1 days comes back as min(n, 10) candidates, one per
\* each of the first min(n, 10) days in the order of the input, substituted prices
\* included.
C4_OnePerDayOfFirstTen ==
    (call.op = "window" /\ forecasts # <<>>) =>
        /\ call.status = 200
        /\ Len(The(call.body)) = (IF Len(forecasts) < 10 THEN Len(forecasts) ELSE 10)
        /\ \A i \in 1..Len(The(call.body)) :
              /\ isoformat(The(call.body)[i].date) = forecasts[i].date
              /\ The(call.body)[i].temperature = forecasts[i].avg_temp
              /\ The(call.body)[i].predicted_price = call.results[i].predicted_price

\* C4 witness: eleven days in, ten candidates out, all at the substituted price.
C4_Witness ==
    /\ call.op = "window"
    /\ Len(forecasts) = 11
    /\ Len(The(call.body)) = 10
    /\ \A i \in 1..10 : ~IsActive(call.results[i])

\* The start-date delay and the duration the rules fix for a temperature (tenths).
RuleDelay(t) == IF t < 200 THEN 3 ELSE IF t > 280 THEN 2 ELSE 0
RuleDuration(t) == IF t < 200 THEN 30 ELSE IF t > 280 THEN 25 ELSE 28

\* C5: below 20.0 the start moves 3 days and the duration is 30; above 28.0 the
\* start moves 2 days and the duration is 25; from 20.0 to 28.0, both ends
\* included, the start stays and the duration is 28.
C5_TemperatureRules ==
    call.op = "rules" =>
        /\ call.start_date = call.proposed + RuleDelay(call.temperature)
        /\ call.duration = RuleDuration(call.temperature)

\* C5 witness: the rules applied at exactly 28.0 left the start date alone.
C5_Witness ==
    /\ call.op = "rules"
    /\ call.temperature = 280
    /\ call.start_date = call.proposed
    /\ call.duration = 28

\* C6: a created recommendation starts on (today + 1 day) + delay(avg_temp) and ends
\* duration(avg_temp) days after its start, in the response and in the stored
\* record alike; on 2025-04-10 at 24.0 that is 2025-04-11 to 2025-05-09.
C6_RearingWindow ==
    (call.op = "predict" /\ call.status = 201) =>
        LET avg_temp == The(The(call.weather).current).avg_temp
            body == The(call.body)
            stored == recommendations[body.recommendation_id]
        IN  /\ body.start_date = today + 1 + RuleDelay(avg_temp)
            /\ body.end_date = body.start_date + RuleDuration(avg_temp)
            /\ stored.start_date = [date |-> body.start_date, time |-> 0]
            /\ stored.end_date = [date |-> body.end_date, time |-> 0]
            /\ (isoformat(today) = <<2025, 4, 10>> /\ avg_temp = 240) =>
                  /\ isoformat(body.start_date) = <<2025, 4, 11>>
                  /\ isoformat(body.end_date) = <<2025, 5, 9>>

\* C6 witness: a recommendation created on 2025-04-10 at 24.0, averaged from two
\* samples.
C6_Witness ==
    /\ call.op = "predict"
    /\ call.status = 201
    /\ ~call.weather_failed
    /\ isoformat(today) = <<2025, 4, 10>>
    /\ The(The(call.weather).current).avg_temp = 240
    /\ isoformat(The(call.body).end_date) = <<2025, 5, 9>>

\* C7: a recommend-now request that completes with 201 has inserted exactly one
\* record, its own, and a window request writes nothing.
C7_OneInsertPerRecommendation ==
    [][ /\ (call'.op = "predict" /\ call'.status = 201 /\ clock' # clock) =>
              /\ call'.inserts = 1
              /\ Len(recommendations') = Len(recommendations) + 1
              /\ SubSeq(recommendations', 1, Len(recommendations)) = recommendations
              /\ recommendations'[Len(recommendations')].created_at
                    = The(call'.body).created_at
        /\ (call'.op = "graph") =>
              /\ call'.inserts = 0
              /\ recommendations' = recommendations ]_vars

\* C7 witness: a record was created although the weather fetch failed and the
\* price was substituted.
C7_Witness ==
    /\ call.op = "predict"
    /\ call.status = 201
    /\ call.weather_failed
    /\ ~IsActive(call.results[1])
    /\ Len(recommendations) = 1

\* C8: a window request whose weather fetch failed still answers 200 with exactly
\* ten candidates, one of them flagged.
C8_WindowSurvivesWeatherFailure ==
    (call.op = "graph" /\ call.weather_failed) =>
        /\ call.status = 200
        /\ Len(The(call.body).predictions) = 10
        /\ Cardinality(Flagged(The(call.body).predictions)) = 1

\* C8 witness: a window answered after a failed fetch.
C8_Witness ==
    /\ call.op = "graph"
    /\ call.weather_failed
    /\ call.status = 200
    /\ Len(The(call.weather).forecast) = 12

\* The number of days each route asks get_weather_data for.
RequestedDays == IF call.op = "graph" THEN 12 ELSE 16

\* The summary _calculate_daily_stats gives a day without a valid sample.
DefaultSummary(date_str) ==
    _calculate_daily_stats(date_str,
        [temps |-> <<None>>, rains |-> <<None>>, humidities |-> <<None>>])

C10_DegradedIsObservable ==
    /\ (call.op = "predict" /\ call.status = 201 /\ ~IsActive(call.results[1])) =>
          LET body == The(call.body)
              stored == recommendations[body.recommendation_id]
          IN  body # PredictionResponse(body.recommendation_id,
                        Recommendation(ActiveAt(call.results[1].predicted_price),
                                       today, stored.created_at, stored.city,
                                       stored.user_id, The(The(call.weather).current)))
    /\ (call.op = "graph" /\ call.status # 403) =>
          /\ call.status = 200
          /\ \A i \in 1..Len(call.results) :
                ~IsActive(call.results[i]) =>
                    LET shown == The(call.body).predictions[i]
                        real == Candidate(The(call.weather).forecast[i],
                                          ActiveAt(call.results[i].predicted_price))
                    IN  shown # TenDayPrediction(
                                   [real EXCEPT !.is_best_date = shown.is_best_date])


\* C11: a recommend-now request whose insert raised answers 500 with no
\* recommendation in the response, has issued the insert once, and leaves the
\* collection as it was, with no record of that request in it.
C11_FailedSaveLeavesNoRecord ==
    [][ (call'.op = "predict" /\ call'.save_failed /\ clock' = clock + 1) =>
            /\ call'.status = 500
            /\ call'.inserts = 1
            /\ call'.body = None
            /\ recommendations' = recommendations
            /\ \A i \in 1..Len(recommendations') :
                  recommendations'[i].created_at # [date |-> today, time |-> clock]
      ]_vars

\* C11 witness: the request reached the save with a fetched weather and a price,
\* the save raised, and the collection holds nothing.
C11_Witness ==
    /\ call.op = "predict"
    /\ call.save_failed
    /\ call.status = 500
    /\ call.inserts = 1
    /\ Len(call.results) = 1
    /\ call.body = None
    /\ recommendations = <<>>

\* The labels an encoder knows.
Vocabulary(encoder) == {encoder[i] : i \in 1..Len(encoder)}

\* C12: generate_10day_predictions for a city the loaded city encoder does not
\* know answers with an error, not with a list of candidates.
C12_UnknownCityIsAnError ==
    (/\ call.op = "window"
     /\ forecasts # <<>>
     /\ ml.model_loaded
     /\ ml.le_city # None
     /\ call.city \notin Vocabulary(The(ml.le_city))) =>
        /\ call.status # 200
        /\ call.body = None

\* Whether predict_price for this city reaches the return of its try block: the
\* model and both encoders are loaded, the city is a known label and the booster
\* answers.
InferenceSucceeds(svc, city) ==
    /\ svc.model_loaded
    /\ svc.model = Some("thermal")
    /\ svc.le_city # None
    /\ svc.le_season # None
    /\ city \in Vocabulary(The(svc.le_city))

\* C17: every result of predict_price has confidence 0.85 with status "active"
\* when the inference succeeded, whatever the inputs and the price, and
\* confidence 0.0 with the price 450.0 otherwise; so the confidence is positive
\* exactly for the results whose price the model produced.
C17_ConfidenceMarksModelPrice ==
    \A k \in 1..Len(call.results) :
        LET r == call.results[k] IN
        /\ r.confidence_score \in {0, 85}
        /\ (r.confidence_score = 85) <=> (r.model_status = "active")
        /\ (r.confidence_score > 0) <=> InferenceSucceeds(ml, call.city)
        /\ (r.confidence_score = 0) => (r.predicted_price = 450)

\* C17 witness: one window request with two successful inferences at different
\* prices, both at confidence 0.85.
C17_Witness ==
    /\ call.op = "graph"
    /\ Len(call.results) >= 2
    /\ call.results[1].predicted_price # call.results[2].predicted_price
    /\ call.results[1].confidence_score = 85
    /\ call.results[2].confidence_score = 85


\* A series whose timestamps never decrease.
TimeOrdered(hourly) ==
    \A i \in 1..(Len(hourly.time) - 1) : hourly.time[i] <= hourly.time[i + 1]

\* A body with a reading of each kind for every timestamp.
Complete(hourly) ==
    /\ Len(hourly.temperature_2m) >= Len(hourly.time)
    /\ Len(hourly.rain) >= Len(hourly.time)
    /\ Len(hourly.relative_humidity_2m) >= Len(hourly.time)

\* The calendar days the samples of a body fall on.
DaysPresent(hourly) == {hourly.time[i] \div 24 : i \in 1..Len(hourly.time)}

\* The samples of day d among the first i, by index, in input order.
RECURSIVE SamplesOn(_, _, _)
SamplesOn(hourly, d, i) ==
    IF i = 0 THEN <<>>
    ELSE IF hourly.time[i] \div 24 = d THEN Append(SamplesOn(hourly, d, i - 1), i)
    ELSE SamplesOn(hourly, d, i - 1)

\* The readings of day d, as the loop collects them.
DayData(hourly, d) ==
    LET ix == SamplesOn(hourly, d, Len(hourly.time)) IN
    [temps |-> [k \in 1..Len(ix) |-> hourly.temperature_2m[ix[k]]],
     rains |-> [k \in 1..Len(ix) |-> hourly.rain[ix[k]]],
     humidities |-> [k \in 1..Len(ix) |-> hourly.relative_humidity_2m[ix[k]]]]

\* The ordinal of the day a summary is dated.
SummaryDay(summary) == strptime(summary.date).val

\* C13: for a time-ordered series _process_hourly_data returns one summary per
\* calendar day present in the input, dated in strictly increasing order, with
\* the first as 'current', and each summary is computed from the samples of its
\* own day and from no other.
C13_OneSummaryPerDay ==
    (call.op = "aggregate" /\ Complete(provider) /\ TimeOrdered(provider)) =>
        /\ call.status = 200
        /\ LET forecast == The(call.weather).forecast IN
           /\ Len(forecast) = Cardinality(DaysPresent(provider))
           /\ {SummaryDay(forecast[k]) : k \in 1..Len(forecast)} = DaysPresent(provider)
           /\ \A k \in 1..(Len(forecast) - 1) :
                 SummaryDay(forecast[k]) < SummaryDay(forecast[k + 1])
           /\ The(call.weather).current =
                 (IF forecast = <<>> THEN None ELSE Some(forecast[1]))
           /\ \A k \in 1..Len(forecast) :
                 forecast[k] = _calculate_daily_stats(
                                   forecast[k].date,
                                   DayData(provider, SummaryDay(forecast[k])))

\* C13 witness: three ordered samples, two on the first day and one on the next,
\* summarised as two days.
C13_Witness ==
    /\ call.op = "aggregate"
    /\ call.status = 200
    /\ TimeOrdered(provider)
    /\ Len(provider.time) = 3
    /\ provider.time[1] \div 24 = provider.time[2] \div 24
    /\ provider.time[2] \div 24 # provider.time[3] \div 24
    /\ provider.temperature_2m[1] # provider.temperature_2m[2]
    /\ Len(The(call.weather).forecast) = 2

\* The non-null readings among xs, unwrapped.
Valid(xs) ==
    LET RECURSIVE V(_)
        V(i) == IF i = 0 THEN <<>>
                ELSE IF xs[i] # None THEN Append(V(i - 1), The(xs[i]))
                ELSE V(i - 1)
    IN  V(Len(xs))

\* C14: every calendar day with a sample is in the output; a day whose readings
\* are all null is summarised as 25.0, 28.0, 22.0, 65.0 and 0.0; and the mean,
\* maximum, minimum and sum of every summary are those of the day's non-null
\* readings alone.
C14_NullDaysKeptWithDefaults ==
    (call.op = "aggregate" /\ Complete(provider)) =>
        /\ call.status = 200
        /\ LET forecast == The(call.weather).forecast IN
           /\ \A d \in DaysPresent(provider) :
                 \E k \in 1..Len(forecast) : SummaryDay(forecast[k]) = d
           /\ TimeOrdered(provider) =>
                 \A k \in 1..Len(forecast) :
                    LET data == DayData(provider, SummaryDay(forecast[k]))
                        temps == Valid(data.temps)
                        rains == Valid(data.rains)
                        humidities == Valid(data.humidities)
                    IN  /\ forecast[k].avg_temp =
                              (IF temps = <<>> THEN 250 ELSE Sum(temps) \div Len(temps))
                        /\ forecast[k].max_temp =
                              (IF temps = <<>> THEN 280 ELSE MaxOf(temps))
                        /\ forecast[k].min_temp =
                              (IF temps = <<>> THEN 220 ELSE MinOf(temps))
                        /\ forecast[k].humidity =
                              (IF humidities = <<>> THEN 650
                               ELSE Sum(humidities) \div Len(humidities))
                        /\ forecast[k].rainfall =
                              (IF rains = <<>> THEN 0 ELSE Sum(rains))

\* C14 witness: a first day with one null and one valid sample, then a day whose
\* only sample is null throughout, emitted with the defaults.
C14_Witness ==
    /\ call.op = "aggregate"
    /\ call.status = 200
    /\ TimeOrdered(provider)
    /\ Len(provider.time) = 3
    /\ provider.time[2] \div 24 # provider.time[3] \div 24
    /\ provider.temperature_2m[1] = None
    /\ provider.temperature_2m[2] = Some(190)
    /\ provider.temperature_2m[3] = None
    /\ provider.rain[3] = None
    /\ provider.relative_humidity_2m[3] = None
    /\ Len(The(call.weather).forecast) = 2
    /\ The(call.weather).forecast[1].avg_temp = 190
    /\ The(call.weather).forecast[2].avg_temp = 250
    /\ The(call.weather).forecast[2].max_temp = 280
    /\ The(call.weather).forecast[2].min_temp = 220
    /\ The(call.weather).forecast[2].humidity = 650
    /\ The(call.weather).forecast[2].rainfall = 0


\* The months get_season puts in a season.
Bucket(season) == {m \in 1..12 : get_season(m) = season}

\* C15: get_season gives each month 1..12 one of the four seasons, Winter for 12,
\* 1, 2, Summer for 3, 4, 5, Monsoon for 6, 7, 8, 9 and PostMonsoon for 10, 11, and
\* the four buckets partition the twelve months.
C15_SeasonsPartitionTheYear ==
    /\ Bucket("Winter") = {12, 1, 2}
    /\ Bucket("Summer") = {3, 4, 5}
    /\ Bucket("Monsoon") = {6, 7, 8, 9}
    /\ Bucket("PostMonsoon") = {10, 11}
    /\ \A m \in 1..12 :
          Cardinality({s \in {"Winter", "Summer", "Monsoon", "PostMonsoon"} :
                          get_season(m) = s}) = 1
    /\ (call.op = "season") =>
          /\ call.season \in {"Winter", "Summer", "Monsoon", "PostMonsoon"}
          /\ call.month \in Bucket(call.season)
          /\ (call.season = "Winter") <=> (call.month \in {12, 1, 2})
          /\ (call.season = "Summer") <=> (call.month \in {3, 4, 5})
          /\ (call.season = "Monsoon") <=> (call.month \in {6, 7, 8, 9})
          /\ (call.season = "PostMonsoon") <=> (call.month \in {10, 11})

\* C15 witness: the last month of the monsoon.
C15_Witness ==
    /\ call.op = "season"
    /\ call.month = 9
    /\ call.season = "Monsoon"

\* C16: validate_rearing_period(start, end) is true exactly when end is 25 to 30
\* days after start: true for each of 25..30, false for 24 and 31, false for the
\* same day and for an end before the start.
C16_ValidPeriodIs25To30Days ==
    (call.op = "validate") =>
        LET days == call.end_date - call.date IN
        /\ call.valid <=> (25 <= days /\ days <= 30)
        /\ (days \in 25..30) => call.valid
        /\ (days \in {24, 31}) => ~call.valid
        /\ (days <= 0) => ~call.valid

\* C16 witness: a period of exactly 30 days that runs over the end of February.
C16_Witness ==
    /\ call.op = "validate"
    /\ isoformat(call.date) = <<2025, 2, 10>>
    /\ isoformat(call.end_date) = <<2025, 3, 12>>
    /\ call.valid

\* C19: is_favorable_season is false for the dates of June, July, August and
\* September and true for the dates of every other month.
C19_UnfavorableExactlyInMonsoon ==
    (call.op = "season") =>
        /\ call.favorable <=> (call.month \notin {6, 7, 8, 9})
        /\ call.favorable <=> (call.rule_season # "Monsoon")

\* C19 witness: the first day after the monsoon months is favorable.
C19_Witness ==
    /\ call.op = "season"
    /\ isoformat(call.date) = <<2025, 10, 1>>
    /\ call.rule_season = "Post-Monsoon"
    /\ call.favorable


\* The stored records of a user, by _id.
OwnRecords(user_id) ==
    {i \in 1..Len(recommendations) : recommendations[i].user_id = user_id}

\* C18: a history answered with 200 lists only records of the caller, newest
\* first, at most limit of them, and they are the caller's most recent records:
\* as many as the limit allows, and none older than a record left out.
C18_HistoryIsOwnNewestWithinLimit ==
    (call.op = "history" /\ call.status = 200) =>
        LET items == The(call.body).recommendations
            own == OwnRecords(The(call.user).id)
            shown == {items[k].id : k \in 1..Len(items)}
        IN  /\ shown \subseteq own
            /\ Cardinality(shown) = Len(items)
            /\ \A k \in 1..Len(items) :
                  /\ items[k].created_at = recommendations[items[k].id].created_at
                  /\ items[k].city = recommendations[items[k].id].city
            /\ \A k \in 1..(Len(items) - 1) :
                  ~Earlier(items[k].created_at, items[k + 1].created_at)
            /\ Len(items) <= call.limit
            /\ Len(items) = (IF Cardinality(own) < call.limit
                             THEN Cardinality(own) ELSE call.limit)
            /\ \A i \in shown, j \in own \ shown :
                  ~Earlier(recommendations[i].created_at,
                           recommendations[j].created_at)


\* C20: the users collection never holds two documents with the same email, and
\* a register request for an email that is already stored is answered 400
\* "Email already registered" and stores nothing.
C20_EmailsAreUnique ==
    /\ \A i, j \in 1..Len(users) : i # j => users[i].email # users[j].email
    /\ \A r \in 1..MaxRegistrations :
          (requests[r].pc = "done" /\ requests[r].status = 400) =>
              /\ requests[r].detail = "Email already registered"
              /\ \E i \in 1..Len(users) : users[i].email = requests[r].email


\* C24: the headline of a window response is its flagged candidate:
\* best_start_date and best_predicted_price are the date and the price of the
\* one candidate with is_best_date, also when several candidates share the
\* maximum price.
C24_HeadlineIsFlaggedCandidate ==
    (call.op = "graph" /\ call.status = 200) =>
        LET body == The(call.body) IN
        /\ Cardinality(Flagged(body.predictions)) = 1
        /\ \A i \in Flagged(body.predictions) :
              /\ body.best_start_date = body.predictions[i].date
              /\ body.best_predicted_price = body.predictions[i].predicted_price

\* C24 witness: two candidates of different dates at the maximum price, the
\* earlier flagged and in the headline.
C24_Witness ==
    /\ call.op = "graph"
    /\ call.status = 200
    /\ LET body == The(call.body) IN
       \E i, j \in 1..Len(body.predictions) :
          /\ i < j
          /\ body.predictions[i].is_best_date
          /\ body.predictions[j].predicted_price = body.predictions[i].predicted_price
          /\ body.predictions[j].date # body.predictions[i].date
          /\ body.best_start_date = body.predictions[i].date

\* A service that lacks the model or one of the encoders.
Incomplete(svc) ==
    \/ ~svc.model_loaded
    \/ svc.model = None
    \/ svc.le_city = None
    \/ svc.le_season = None

\* C28: whatever load_model met, a service marked loaded holds a model; a
\* service that is not marked loaded, or lacks the model or an encoder, answers
\* every predict_price with 450.0 at confidence 0.0; and status "active" comes
\* only from a service with the model and both encoders.
C28_ActiveOnlyWhenFullyLoaded ==
    /\ ml.model_loaded => ml.model # None
    /\ \A k \in 1..Len(call.results) :
          LET r == call.results[k] IN
          /\ Incomplete(ml) =>
                /\ r.predicted_price = 450
                /\ r.confidence_score = 0
                /\ r.model_status \in {"not_loaded", "error"}
          /\ (r.model_status = "active") => ~Incomplete(ml)

\* C28 witness: the model loaded and the season encoder file missing, and a
\* prediction answered with the fallback.
C28_Witness ==
    /\ ml.model_loaded
    /\ ml.model # None
    /\ ml.le_city # None
    /\ ml.le_season = None
    /\ call.op = "predict"
    /\ Len(call.results) = 1
    /\ call.results[1].model_status = "error"
    /\ call.results[1].predicted_price = 450


\* The feature row of a day whose month and season are those of the day's date.
RowOfOwnMonth(svc, city, day_weather) ==
    LET m == YMD(strptime(day_weather.date).val).month IN
    <<transform(The(svc.le_city), city).val, m,
      transform(The(svc.le_season), get_season(m)).val,
      day_weather.avg_temp, day_weather.max_temp, day_weather.humidity,
      day_weather.rainfall>>

\* C23: every candidate of generate_10day_predictions is priced from the month
\* and the season of its own date, not of the day of the request.
C23_SeasonOfEachDay ==
    (call.op = "window" /\ call.status = 200 /\ InferenceSucceeds(ml, call.city)) =>
        \A i \in 1..Len(The(call.body)) :
            /\ The(call.body)[i].date = today + (i - 1)
            /\ The(call.body)[i].predicted_price =
                  BoosterPredict(The(ml.model),
                                 RowOfOwnMonth(ml, call.city, forecasts[i])).val

\* C23 witness: a window from 2025-09-25 whose first day is priced in the
\* monsoon and whose seventh, with the same weather, after it, at another price.
C23_Witness ==
    /\ call.op = "window"
    /\ call.status = 200
    /\ InferenceSucceeds(ml, call.city)
    /\ Len(The(call.body)) >= 7
    /\ isoformat(The(call.body)[1].date) = <<2025, 9, 25>>
    /\ isoformat(The(call.body)[7].date) = <<2025, 10, 1>>
    /\ get_season(YMD(The(call.body)[1].date).month) = "Monsoon"
    /\ get_season(YMD(The(call.body)[7].date).month) = "PostMonsoon"
    /\ forecasts[1].avg_temp = forecasts[7].avg_temp
    /\ The(call.body)[7].predicted_price = The(call.body)[1].predicted_price + 6


\* C25: get_season on the month of a date and get_season_from_date on the date
\* name the same season, except that for October and November the first says
\* "PostMonsoon" and the second "Post-Monsoon"; the label given to the season
\* encoder is the first one, which the encoder knows, and never the hyphenated
\* one, which it does not.
C25_SeasonLabelsDifferOnlyAfterMonsoon ==
    (call.op = "season") =>
        /\ (call.month \notin {10, 11}) =>
              /\ call.rule_season = call.season
              /\ call.season \in {"Winter", "Summer", "Monsoon"}
        /\ (call.month \in {10, 11}) =>
              /\ call.season = "PostMonsoon"
              /\ call.rule_season = "Post-Monsoon"
        /\ \A d \in CalendarDates :
              (get_season(YMD(d).month) = call.season) <=>
                  (get_season_from_date(d) = call.rule_season)
        /\ call.season \in Vocabulary(SeasonEncoder)
        /\ call.season # "Post-Monsoon"
        /\ (call.rule_season \in Vocabulary(SeasonEncoder)) <=> (call.month \notin {10, 11})

\* C25 witness: a November day, labelled differently by the two functions.
C25_Witness ==
    /\ call.op = "season"
    /\ call.month = 11
    /\ call.season = "PostMonsoon"
    /\ call.rule_season = "Post-Monsoon"
    /\ call.season # call.rule_season


\* C27: every record generate_recommendation produces has a rearing window that
\* validate_rearing_period accepts: it lasts 25, 28 or 30 days, starts 1 to 4
\* days after today and ends after it starts.
C27_GeneratedWindowIsValid ==
    (call.op = "recommendation") =>
        LET start_date == datetime_to_date(call.recommendation.start_date)
            end_date == datetime_to_date(call.recommendation.end_date)
        IN  /\ validate_rearing_period(start_date, end_date)
            /\ end_date - start_date \in {25, 28, 30}
            /\ start_date - today \in 1..4
            /\ end_date > start_date

\* C27 witness: a hot day's record, delayed by two days and 25 days long.
C27_Witness ==
    /\ call.op = "recommendation"
    /\ call.temperature = 281
    /\ datetime_to_date(call.recommendation.start_date) = today + 3
    /\ datetime_to_date(call.recommendation.end_date) = today + 28


NotAFarmer(user) == user = None \/ The(user).role # "Farmer"

\* C22: predict, history and 10day-graph answer a caller without a user
\* document or with a role other than "Farmer" with 403, with no weather
\* fetched, no price predicted and nothing written, and no stored record carries
\* the user_id of such a caller.
C22_RejectedBeforeAnyWork ==
    /\ (call.op \in {"predict", "graph"} /\ NotAFarmer(call.user)) =>
          /\ call.status = 403
          /\ call.weather = None
          /\ ~call.weather_failed
          /\ call.results = <<>>
          /\ call.inserts = 0
          /\ call.body = None
    /\ (call.op = "history" /\ NotAFarmer(call.user)) =>
          /\ call.status = 403
          /\ call.body = None
    /\ \A k \in 1..Len(recommendations) :
          \E user \in HistoryUsers :
              /\ ~NotAFarmer(user)
              /\ The(user).id = recommendations[k].user_id

\* C22 witness: an admin's POST /predict is refused while the collection holds
\* the record of a farmer.
C22_Witness ==
    /\ call.op = "predict"
    /\ call.user # None
    /\ The(call.user).role = "Admin"
    /\ call.status = 403
    /\ Len(recommendations) = 1
    /\ recommendations[1].user_id = "farmer1"


\* C29: the status of a health check is "healthy" exactly when the ping
\* succeeded and the model is loaded, "unhealthy" whenever the ping raised, and
\* "degraded" in the remaining case.
C29_StatusIsWorstComponent ==
    (call.op = "health") =>
        /\ (call.status = "healthy") <=>
              (call.database.status = "connected" /\ ml.model_loaded)
        /\ (call.database.status = "error") => call.status = "unhealthy"
        /\ (call.database.status = "connected" /\ ~ml.model_loaded) =>
              call.status = "degraded"


\* The positions in the farmers collection of the documents of a user.
ProfilesOf(user_id) == {i \in 1..Len(farmers) : farmers[i].user_id = user_id}

\* The districts the received requests of a user asked for.
Posted(user_id) ==
    {requests[r].district :
        r \in {q \in 1..MaxPosts : requests[q].pc # "idle" /\ requests[q].user_id = user_id}}

\* The requests that took the insert branch and were answered.
Inserted == {r \in 1..MaxPosts : requests[r].pc = "done" /\ requests[r].status = 201
                                 /\ ~requests[r].existing}

\* C21: POST /profile is an upsert under any interleaving of requests: the
\* farmers collection holds at most one document per user_id, that document
\* carries the data of one of the user's requests, and a document still has
\* the created_at its insert was answered with, whatever updates followed.
C21_ProfileIsUpserted ==
    /\ \A i \in 1..Len(farmers) :
          /\ Cardinality(ProfilesOf(farmers[i].user_id)) <= 1
          /\ farmers[i].district \in Posted(farmers[i].user_id)
    /\ \A r \in Inserted :
          farmers[The(requests[r].response).id].created_at =
              The(requests[r].response).created_at

=============================================================================
